---- MODULE Spec2Model ----
(***************************************************************************)
(* Port visits, ping labels and voyages derived from AIS pings:            *)
(* PortMatcher.find_candidates / find_port_visits (src/src/port_matcher.py)*)
(* and VoyageCreator._split_visits / label_pings / build_voyages           *)
(* (src/src/voyage_creator.py).                                            *)
(*                                                                         *)
(* Timestamps are whole hours since the first report.  Speeds are tenths   *)
(* of a knot.  A ping's position is represented by `within`, the set of    *)
(* ports whose buffer contains it (the result of the spatial join).        *)
(* A DataFrame is a sequence of records, a missing value is NA / NA_ID.    *)
(***************************************************************************)
EXTENDS FiniteSets, Integers, Sequences, TLC

\* ---------------------------------------------------------------- bounds
MaxTime == 2
MaxPings == 4
MaxGap == 2
MaxCalls == 3

\* ------------------------------------------------------------- constants
Vessels == {111, 222}
\* ports_gdf['portName'], in ascending name order
PortNames == <<"PortA", "PortB">>
\* max_speed_knots = 1.5, in tenths of a knot
max_speed == 15
SecondsPerHour == 3600
\* a missing port name (NaN / None)
NA == "NA"
\* a missing voyage_id (pd.NA)
NA_ID == -1
\* a missing timestamp (NaT)
NaT == -1
\* a missing speed over ground (NaN)
NaN == -2

Times == 0 .. MaxTime
\* min_time_in_port: no minimum stay, or the default of one hour
MinStays == 0 .. 1
\* gap thresholds below zero
NegativeThresholds == {-1, -MaxGap}
GapThresholds == 0 .. MaxGap

\* (sog, within) of the pings drawn: underway at sea, moored in PortA
\* outside PortB's buffer, drifting at exactly max_speed where both buffers
\* overlap.
PingKinds ==
    { [sog |-> 100, within |-> {}],
      [sog |-> 5,   within |-> {"PortA"}],
      [sog |-> 15,  within |-> {"PortA", "PortB"}] }

\* The pings drawn for find_candidates: those of PingKinds, a ping inside
\* PortA just above max_speed, and a ping inside PortA with no sog value.
CandKinds ==
    PingKinds \cup { [sog |-> max_speed + 1, within |-> {"PortA"}],
                     [sog |-> NaN,           within |-> {"PortA"}] }

\* ------------------------------------------------------- frame helpers
PortRank(p) == CHOOSE i \in DOMAIN PortNames : PortNames[i] = p

LexLess(x, y) == x[1] < y[1] \/ (x[1] = y[1] /\ x[2] < y[2])

Min(S) == CHOOSE x \in S : \A y \in S : x <= y
Max(S) == CHOOSE x \in S : \A y \in S : y <= x

RECURSIVE Concat(_)
Concat(ss) == IF ss = <<>> THEN <<>> ELSE Head(ss) \o Concat(Tail(ss))

\* Row positions I of a frame ordered by the two-part key k, rows with equal
\* keys kept in their original order (a stable sort).
RECURSIVE StableOrder(_, _)
StableOrder(I, k) ==
    IF I = {} THEN <<>>
    ELSE LET i == CHOOSE x \in I : \A j \in I \ {x} :
                      LexLess(k[x], k[j]) \/ (k[x] = k[j] /\ x < j)
         IN  <<i>> \o StableOrder(I \ {i}, k)

\* Every way of ordering the row positions I ascending by the two-part key
\* k: the order among rows with equal keys is not fixed (an unstable sort).
RECURSIVE SortedOrders(_, _)
SortedOrders(I, k) ==
    IF I = {} THEN {<<>>}
    ELSE LET m == CHOOSE x \in {k[j] : j \in I} :
                     \A j \in I : ~LexLess(k[j], x)
         IN  UNION { {<<i>> \o r : r \in SortedOrders(I \ {i}, k)} :
                     i \in {j \in I : k[j] = m} }

Reorder(df, o) == [j \in 1 .. Len(o) |-> df[o[j]]]

Reverse(df) == [j \in 1 .. Len(df) |-> df[Len(df) + 1 - j]]

\* the frame with rows i and j exchanged
Swap(df, i, j) ==
    [k \in DOMAIN df |-> IF k = i THEN df[j] ELSE IF k = j THEN df[i] ELSE df[k]]

\* the frame itself, with two of its rows exchanged, or back to front
Reordered(df) == {Swap(df, i, j) : i, j \in DOMAIN df} \cup {df, Reverse(df)}

\* df.sort_values(col) on one column (default kind='quicksort', not stable):
\* the set of frames it may return.  k is the key <<col, tie>>; rows whose
\* relative order no reader of the result looks at are given distinct ties.
sort_values(df, k) == {Reorder(df, o) : o \in SortedOrders(DOMAIN df, k)}

\* df.sort_values([col1, col2]): lexicographic and stable.
sort_values2(df, k) == Reorder(df, StableOrder(DOMAIN df, k))

\* Timedelta.total_seconds() of a difference of two timestamps
total_seconds(td) == td * SecondsPerHour

\* --------------------------------------------- PortMatcher.find_candidates
\* candidates_gdf.sjoin(ports_buffered, predicate='within'): one row per
\* (ping, port) with the ping inside the port's buffer.
RECURSIVE sjoin(_)
sjoin(candidates) ==
    IF candidates = <<>> THEN <<>>
    ELSE LET p == Head(candidates)
             hit == SelectSeq(PortNames, LAMBDA n : n \in p.within)
         IN  [j \in 1 .. Len(hit) |->
                [mmsi |-> p.mmsi, base_date_time |-> p.base_date_time,
                 portName |-> hit[j]]]
             \o sjoin(Tail(candidates))

\* sog_le with a missing sog read as 0 knots
sog_le_fillna(sog, limit) == sog <= limit

\* ais_df['sog'] <= self.max_speed on one row: a missing sog compares False
sog_le(sog, limit) == sog # NaN /\ sog <= limit

\* find_candidates with the speed filter written sog < max_speed
find_candidates_strict(df) ==
    sjoin(SelectSeq(df, LAMBDA p : p.sog # NaN /\ p.sog < max_speed))

find_candidates(df) ==
    sjoin(SelectSeq(df, LAMBDA p : sog_le(p.sog, max_speed)))

\* ------------------------------------------- VoyageCreator._split_visits
\* GroupTimes without sort_values: the group's timestamps in frame order
GroupTimesUnsorted(df, mmsi, portName) ==
    LET g == SelectSeq(df, LAMBDA r : r.mmsi = mmsi /\ r.portName = portName)
    IN  [j \in DOMAIN g |-> g[j].base_date_time]

\* grp = grp.sort_values(timestamp_col): the group's timestamps, ascending
GroupTimes(df, mmsi, portName) ==
    LET I == {i \in DOMAIN df : df[i].mmsi = mmsi /\ df[i].portName = portName}
        o == StableOrder(I, [i \in I |-> <<df[i].base_date_time, 0>>])
    IN  [j \in 1 .. Len(o) |-> df[o[j]].base_date_time]

\* GapExceeds with a threshold below zero read as zero
GapExceedsClamped(ts, j, g) ==
    j > 1 /\ total_seconds(ts[j] - ts[j - 1])
                > (IF g < 0 THEN 0 ELSE g) * SecondsPerHour

\* GapExceeds with the comparison written >=
GapExceedsOrEqual(ts, j, g) ==
    j > 1 /\ total_seconds(ts[j] - ts[j - 1]) >= g * SecondsPerHour

\* gap_hours > gap_threshold_h at row j of the sorted group; row 1 has no
\* predecessor (NaT), which compares False.
GapExceeds(ts, j, g) ==
    j > 1 /\ total_seconds(ts[j] - ts[j - 1]) > g * SecondsPerHour

\* visit_num = (gap_hours > gap_threshold_h).cumsum()
visit_num(ts, g) ==
    [i \in DOMAIN ts |-> Cardinality({j \in 1 .. i : GapExceeds(ts, j, g)})]

\* duration_hours with the operands of the difference exchanged
duration_hours_swapped(entry, exit) ==
    total_seconds(entry - exit) \div SecondsPerHour

\* duration_hours: (exit - entry).total_seconds() / 3600
duration_hours(entry, exit) == total_seconds(exit - entry) \div SecondsPerHour

\* for _, visit in grp.groupby(visit_num): records.append({...})
GroupVisits(mmsi, portName, ts, g) ==
    LET vn == visit_num(ts, g)
        n  == IF ts = <<>> THEN 0 ELSE vn[Len(ts)] + 1
    IN  [v \in 1 .. n |->
           LET rows  == {ts[i] : i \in {j \in DOMAIN ts : vn[j] = v - 1}}
               entry == Min(rows)
               exit  == Max(rows)
           IN  [mmsi |-> mmsi, portName |-> portName,
                entry_time |-> entry, exit_time |-> exit,
                duration_hours |-> duration_hours(entry, exit)]]

\* near_port_df.groupby(['mmsi', 'portName']): the group keys, ascending
GroupKeys(df) ==
    LET K == {<<df[i].mmsi, df[i].portName>> : i \in DOMAIN df}
        ks == CHOOSE s \in [1 .. Cardinality(K) -> K] :
                 \A a, b \in DOMAIN s : a < b =>
                    LexLess(<<s[a][1], PortRank(s[a][2])>>,
                            <<s[b][1], PortRank(s[b][2])>>)
    IN  ks

_split_visits(near_port_df, g) ==
    LET ks == GroupKeys(near_port_df)
        records == Concat([j \in DOMAIN ks |->
                      GroupVisits(ks[j][1], ks[j][2],
                                  GroupTimes(near_port_df, ks[j][1], ks[j][2]), g)])
    IN  sort_values2(records,
                     [i \in DOMAIN records |->
                        <<records[i].mmsi, records[i].entry_time>>])

\* ----------------------------------------- PortMatcher.find_port_visits
pm_find_port_visits(df, g) ==
    LET candidates == find_candidates(df)
        ks == GroupKeys(candidates)
        records == Concat([j \in DOMAIN ks |->
                      GroupVisits(ks[j][1], ks[j][2],
                                  GroupTimes(candidates, ks[j][1], ks[j][2]), g)])
    IN  sort_values2(records,
                     [i \in DOMAIN records |->
                        <<records[i].mmsi, records[i].entry_time>>])

\* ------------------------------------------------------ PortMatcher.match
\* .drop_duplicates(): the first of every run of equal rows, in order
drop_duplicates_rows(rows) ==
    LET keep == {i \in DOMAIN rows : \A h \in 1 .. i - 1 : rows[h] # rows[i]}
    IN  Reorder(rows, StableOrder(keep, [i \in keep |-> <<i, 0>>]))

\* match with the filter written duration_hours > min_time_in_port
match_strict(df, g, min_time) ==
    LET visits   == pm_find_port_visits(df, g)
        filtered == SelectSeq(visits, LAMBDA v : v.duration_hours > min_time)
    IN  drop_duplicates_rows(
            [j \in DOMAIN filtered |->
                [mmsi |-> filtered[j].mmsi, portName |-> filtered[j].portName]])

\* visits[visits['duration_hours'] >= self.min_time_in_port]
\*     [['mmsi', 'portName']].drop_duplicates().reset_index(drop=True),
\* the empty frame when there is no visit
match(df, g, min_time) ==
    LET visits   == pm_find_port_visits(df, g)
        filtered == SelectSeq(visits, LAMBDA v : v.duration_hours >= min_time)
    IN  IF visits = <<>> THEN <<>>
        ELSE drop_duplicates_rows(
                [j \in DOMAIN filtered |->
                    [mmsi |-> filtered[j].mmsi,
                     portName |-> filtered[j].portName]])

\* ----------------------------------------- PortMatcher.add_port_call_counts
\* A ports table is [columns |-> names, data |-> rows], a row the sequence
\* of its values in column order; portName is the first column and the
\* geometry column is left out.

\* matched_df.groupby('portName')['mmsi'].nunique().reset_index(): a row
\* <<portName, number of distinct mmsi>> per port named in matched_df,
\* ports ascending
port_call_counts(md) ==
    LET named == SelectSeq(PortNames,
                           LAMBDA n : \E j \in DOMAIN md : md[j].portName = n)
    IN  [k \in DOMAIN named |->
            <<named[k],
              Cardinality({md[j].mmsi : j \in
                    {i \in DOMAIN md : md[i].portName = named[k]}})>>]

HasColumn(cols, name) == \E k \in DOMAIN cols : cols[k] = name

\* self.ports.merge(port_call_counts, on='portName', how='left'), columns:
\* a column both frames have gets the suffix _x on the left and _y on the
\* right
merge_columns(cols) ==
    IF HasColumn(cols, "port_call_count")
    THEN [k \in DOMAIN cols |->
            IF cols[k] = "port_call_count"
            THEN "port_call_count_x" ELSE cols[k]]
         \o <<"port_call_count_y">>
    ELSE cols \o <<"port_call_count">>

\* the merge renames into a name that is already there
SuffixClash(cols) ==
    /\ HasColumn(cols, "port_call_count")
    /\ HasColumn(cols, "port_call_count_x") \/ HasColumn(cols, "port_call_count_y")

\* ..., rows: every row of self.ports, with the count of its port or NaN
merge_data(data, counts) ==
    [r \in DOMAIN data |->
        LET hit == {k \in DOMAIN counts : counts[k][1] = data[r][1]}
        IN  data[r] \o << IF hit = {} THEN NaN ELSE counts[Min(hit)][2] >>]

\* self.ports['port_call_count'].fillna(0).astype(int)
fillna(t) ==
    [columns |-> t.columns,
     data |-> [r \in DOMAIN t.data |->
                 [k \in DOMAIN t.columns |->
                     IF t.columns[k] = "port_call_count" /\ t.data[r][k] = NaN
                     THEN 0 ELSE t.data[r][k]]]]

\* The outcome of add_port_call_counts(matched_df) on a matcher whose ports
\* table is t.  clash_raises: the installed pandas raises MergeError when
\* the suffixes produce a column name twice (it only warns otherwise).
add_port_call_counts(t, md, clash_raises) ==
    IF SuffixClash(t.columns) /\ clash_raises
    THEN [ports |-> t, returned |-> <<>>, raised |-> "MergeError"]
    ELSE LET merged == [columns |-> merge_columns(t.columns),
                        data |-> merge_data(t.data, port_call_counts(md))]
         IN  IF ~HasColumn(merged.columns, "port_call_count")
             THEN [ports |-> merged, returned |-> <<>>, raised |-> "KeyError"]
             ELSE [ports |-> fillna(merged), returned |-> fillna(merged),
                   raised |-> "none"]

\* ---------------------------------------------- VoyageCreator.label_pings
\* ais_df[['mmsi', ts]].merge(port_visits[[...]], on='mmsi', how='left'):
\* for each ping in order one row per visit of its vessel, in port_visits
\* order, or one row with missing visit columns when the vessel has none.
merge_visits(df, visits) ==
    Concat([j \in DOMAIN df |->
        LET hit == SelectSeq(visits, LAMBDA v : v.mmsi = df[j].mmsi)
        IN  IF hit = <<>>
            THEN << [mmsi |-> df[j].mmsi,
                     base_date_time |-> df[j].base_date_time,
                     portName |-> NA, entry_time |-> NaT, exit_time |-> NaT] >>
            ELSE [k \in DOMAIN hit |->
                    [mmsi |-> df[j].mmsi,
                     base_date_time |-> df[j].base_date_time,
                     portName |-> hit[k].portName,
                     entry_time |-> hit[k].entry_time,
                     exit_time |-> hit[k].exit_time]]])

\* query with the window written entry_time <= t < exit_time
query_open(rows) ==
    SelectSeq(rows, LAMBDA r : /\ r.entry_time # NaT
                               /\ r.entry_time <= r.base_date_time
                               /\ r.base_date_time < r.exit_time)

\* .query('entry_time <= base_date_time <= exit_time'); a missing entry_time
\* or exit_time compares False.
query(rows) ==
    SelectSeq(rows, LAMBDA r : /\ r.entry_time # NaT
                               /\ r.entry_time <= r.base_date_time
                               /\ r.base_date_time <= r.exit_time)

\* drop_duplicates left out
drop_duplicates_none(rows) == rows

\* .drop_duplicates(['mmsi', timestamp_col]): the first row of every
\* (mmsi, timestamp), in order.
drop_duplicates(rows) ==
    LET keep == {i \in DOMAIN rows :
                    \A h \in 1 .. i - 1 :
                        \/ rows[h].mmsi # rows[i].mmsi
                        \/ rows[h].base_date_time # rows[i].base_date_time}
    IN  Reorder(rows, StableOrder(keep, [i \in keep |-> <<i, 0>>]))

in_visit(df, visits) == drop_duplicates(query(merge_visits(df, visits)))

\* df = ais_df.merge(in_visit.rename(columns={'portName': 'current_port'}),
\*                   on=['mmsi', timestamp_col], how='left'):
\* for each ping in order one row per row of in_visit with its key, or one
\* row with current_port missing when there is none.
merge_current_port(df, iv) ==
    Concat([j \in DOMAIN df |->
        LET hit == SelectSeq(iv, LAMBDA r :
                        /\ r.mmsi = df[j].mmsi
                        /\ r.base_date_time = df[j].base_date_time)
        IN  IF hit = <<>>
            THEN << [mmsi |-> df[j].mmsi,
                     base_date_time |-> df[j].base_date_time,
                     sog |-> df[j].sog, within |-> df[j].within,
                     current_port |-> NA] >>
            ELSE [k \in DOMAIN hit |->
                    [mmsi |-> df[j].mmsi,
                     base_date_time |-> df[j].base_date_time,
                     sog |-> df[j].sog, within |-> df[j].within,
                     current_port |-> hit[k].portName]]])

\* origin_port taking the first row with exit_time <= t, not the last
origin_port_first(mmsi, t, visits_by_exit) ==
    LET I == {i \in DOMAIN visits_by_exit :
                 /\ visits_by_exit[i].mmsi = mmsi
                 /\ visits_by_exit[i].exit_time <= t}
    IN  IF I = {} THEN NA ELSE visits_by_exit[Min(I)].portName

\* merge_asof(..., by='mmsi', right_on='exit_time', direction='backward'):
\* the last row of visits_by_exit of this vessel with exit_time <= t.
origin_port(mmsi, t, visits_by_exit) ==
    LET I == {i \in DOMAIN visits_by_exit :
                 /\ visits_by_exit[i].mmsi = mmsi
                 /\ visits_by_exit[i].exit_time <= t}
    IN  IF I = {} THEN NA ELSE visits_by_exit[Max(I)].portName

\* destination_port taking the last row with entry_time >= t, not the first
destination_port_last(mmsi, t, visits_by_entry) ==
    LET I == {i \in DOMAIN visits_by_entry :
                 /\ visits_by_entry[i].mmsi = mmsi
                 /\ visits_by_entry[i].entry_time >= t}
    IN  IF I = {} THEN NA ELSE visits_by_entry[Max(I)].portName

\* merge_asof(..., by='mmsi', right_on='entry_time', direction='forward'):
\* the first row of visits_by_entry of this vessel with entry_time >= t.
destination_port(mmsi, t, visits_by_entry) ==
    LET I == {i \in DOMAIN visits_by_entry :
                 /\ visits_by_entry[i].mmsi = mmsi
                 /\ visits_by_entry[i].entry_time >= t}
    IN  IF I = {} THEN NA ELSE visits_by_entry[Min(I)].portName

\* LabelRow without `pings_sorted.loc[at_port, [...]] = None`
LabelRowEnRoute(p, visits_by_exit, visits_by_entry) ==
    [mmsi |-> p.mmsi, base_date_time |-> p.base_date_time,
     sog |-> p.sog, within |-> p.within,
     current_port |-> p.current_port,
     origin_port |-> origin_port(p.mmsi, p.base_date_time, visits_by_exit),
     destination_port |->
        destination_port(p.mmsi, p.base_date_time, visits_by_entry),
     voyage_id |-> NA_ID]

\* One row of pings_sorted after l.146-152: the row of df plus origin_port,
\* destination_port and voyage_id.
LabelRow(p, visits_by_exit, visits_by_entry) ==
    LET at_port == p.current_port # NA
    IN  [mmsi |-> p.mmsi, base_date_time |-> p.base_date_time,
         sog |-> p.sog, within |-> p.within,
         current_port |-> p.current_port,
         origin_port |->
            IF at_port THEN NA
            ELSE origin_port(p.mmsi, p.base_date_time, visits_by_exit),
         destination_port |->
            IF at_port THEN NA
            ELSE destination_port(p.mmsi, p.base_date_time, visits_by_entry),
         voyage_id |-> NA_ID]

\* The frames label_pings may return.  merge_asof(by='mmsi') only compares
\* rows of one vessel, so the order sort_values('exit_time') and
\* sort_values('entry_time') give to rows of different vessels is immaterial
\* and only the order of one vessel's visits with equal keys is left open.
\* sort_values(timestamp_col) followed by the stable
\* sort_values(['mmsi', timestamp_col]) leaves open exactly the order of
\* rows with equal (mmsi, timestamp).
label_pings(df, visits) ==
    LET merged == merge_current_port(df, in_visit(df, visits))
    IN  { LET labelled == [j \in DOMAIN merged |-> LabelRow(merged[j], vx, ve)]
          IN  Reorder(labelled, o) :
            <<o, vx, ve>> \in
                SortedOrders(DOMAIN merged,
                             [j \in DOMAIN merged |->
                                <<merged[j].mmsi, merged[j].base_date_time>>])
                \X sort_values(visits,
                      [j \in DOMAIN visits |-> <<visits[j].exit_time, visits[j].mmsi>>])
                \X sort_values(visits,
                      [j \in DOMAIN visits |-> <<visits[j].entry_time, visits[j].mmsi>>]) }

\* -------------------------------------------- VoyageCreator.build_voyages
\* port_visits.groupby('mmsi'): the vessels that have a visit, ascending
VesselGroups(visits) ==
    LET M == {visits[j].mmsi : j \in DOMAIN visits}
    IN  StableOrder(M, [m \in M |-> <<m, 0>>])

\* the rows of one group, in port_visits order
VesselVisits(visits, m) == SelectSeq(visits, LAMBDA v : v.mmsi = m)

\* Overlapping with the comparison written <
OverlappingStrict(dep, arr) == arr.entry_time < dep.exit_time

\* if arr['entry_time'] <= dep['exit_time']: continue
Overlapping(dep, arr) == arr.entry_time <= dep.exit_time

\* sea_mask without the test on mmsi
sea_mask_any_vessel(df, m, dep, arr) ==
    {j \in DOMAIN df :
        /\ df[j].base_date_time > dep.exit_time
        /\ df[j].base_date_time < arr.entry_time}

\* sea_mask: the rows of df_labeled of this vessel strictly between the
\* departure's exit_time and the arrival's entry_time
sea_mask(df, m, dep, arr) ==
    {j \in DOMAIN df :
        /\ df[j].mmsi = m
        /\ df[j].base_date_time > dep.exit_time
        /\ df[j].base_date_time < arr.entry_time}

\* df_labeled.loc[sea_mask, 'voyage_id'] = voyage_id_counter
Stamp(df, mask, id) ==
    [j \in DOMAIN df |-> IF j \in mask THEN [df[j] EXCEPT !.voyage_id = id] ELSE df[j]]

\* the row appended to voyage_records
VoyageRecord(id, m, dep, arr, mask) ==
    [voyage_id      |-> id,
     mmsi           |-> m,
     departure_port |-> dep.portName,
     departure_time |-> dep.exit_time,
     arrival_port   |-> arr.portName,
     arrival_time   |-> arr.entry_time,
     duration_hours |-> total_seconds(arr.entry_time - dep.exit_time) \div SecondsPerHour,
     ping_count     |-> Cardinality(mask)]

\* WalkPairs with `break` in place of `continue`
RECURSIVE WalkPairsBreak(_, _, _, _, _, _)
WalkPairsBreak(df, records, counter, m, vs, i) ==
    IF i >= Len(vs) - 1 \/ Overlapping(vs[i + 1], vs[i + 2])
    THEN [df_labeled |-> df, voyage_records |-> records,
          voyage_id_counter |-> counter]
    ELSE LET dep  == vs[i + 1]
             arr  == vs[i + 2]
             mask == sea_mask(df, m, dep, arr)
         IN  WalkPairsBreak(Stamp(df, mask, counter),
                            Append(records,
                                   VoyageRecord(counter, m, dep, arr, mask)),
                            counter + 1, m, vs, i + 1)

\* for i in range(len(visits_sorted) - 1): ... ; i is the loop index, the
\* pair is (visits_sorted.iloc[i], visits_sorted.iloc[i + 1]).
RECURSIVE WalkPairs(_, _, _, _, _, _)
WalkPairs(df, records, counter, m, vs, i) ==
    IF i >= Len(vs) - 1
    THEN [df_labeled |-> df, voyage_records |-> records,
          voyage_id_counter |-> counter]
    ELSE LET dep == vs[i + 1]
             arr == vs[i + 2]
         IN  IF Overlapping(dep, arr)
             THEN WalkPairs(df, records, counter, m, vs, i + 1)
             ELSE LET mask == sea_mask(df, m, dep, arr)
                  IN  WalkPairs(Stamp(df, mask, counter),
                                Append(records,
                                       VoyageRecord(counter, m, dep, arr, mask)),
                                counter + 1, m, vs, i + 1)

\* for mmsi, visits in port_visits.groupby('mmsi'): ... ; sorted[m] is
\* visits.sort_values('entry_time') of vessel m.
\* WalkVessels with voyage_id_counter = 0 inside the outer loop
RECURSIVE WalkVesselsOwnCounter(_, _, _)
WalkVesselsOwnCounter(st, gs, sorted) ==
    IF gs = <<>> THEN st
    ELSE WalkVesselsOwnCounter(
             WalkPairs(st.df_labeled, st.voyage_records, 0, Head(gs),
                       sorted[Head(gs)], 0),
             Tail(gs), sorted)

RECURSIVE WalkVessels(_, _, _)
WalkVessels(st, gs, sorted) ==
    IF gs = <<>> THEN st
    ELSE WalkVessels(WalkPairs(st.df_labeled, st.voyage_records,
                               st.voyage_id_counter, Head(gs), sorted[Head(gs)], 0),
                     Tail(gs), sorted)

\* The orders visits.sort_values('entry_time') may give each vessel's visits
VisitOrders(visits) ==
    LET M  == {visits[j].mmsi : j \in DOMAIN visits}
        sv == [m \in M |->
                 LET g == VesselVisits(visits, m)
                 IN  sort_values(g, [j \in DOMAIN g |-> <<g[j].entry_time, 0>>])]
    IN  {f \in [M -> UNION {sv[m] : m \in M}] : \A m \in M : f[m] \in sv[m]}

\* The outcomes of build_voyages(df_labeled, port_visits): the stamped frame,
\* the voyage rows, the final counter and the visit order walked per vessel.
build_voyages(df, visits) ==
    { [out |-> WalkVessels([df_labeled |-> df, voyage_records |-> <<>>,
                            voyage_id_counter |-> 0],
                           VesselGroups(visits), sorted),
       visits_sorted |-> sorted] :
      sorted \in VisitOrders(visits) }

\* --------------------------------------------------------------- state
VARIABLES
    pc,                 \* position of the run
    ais_df,             \* the AIS pings handed in
    gap_threshold_h,    \* the configured gap threshold, hours
    min_time_in_port,   \* PortMatcher.min_time_in_port, hours
    near_port,          \* find_candidates(ais_df)
    port_visits,        \* VoyageCreator.find_port_visits(ais_df)
    pm_visits,          \* PortMatcher.find_port_visits(ais_df, gap_threshold_h)
    df_labeled,         \* label_pings output, stamped in place by build_voyages
    visits_sorted,      \* build_voyages: each vessel's visits by entry_time
    voyage_records,     \* build_voyages: the voyage rows (df_voyages)
    voyage_id_counter,  \* build_voyages: next voyage id
    ports,              \* PortMatcher.ports
    matched_df,         \* the argument of the last add_port_call_counts
    calls,              \* add_port_call_counts calls made on the matcher
    returned,           \* what build_voyages / match / add_port_call_counts returned
    raised              \* the exception the last call ended with, or "none"

\* the state of the PortMatcher beyond its thresholds
matcher_vars == <<ports, matched_df, calls>>

vars == <<pc, ais_df, gap_threshold_h, min_time_in_port, near_port, port_visits,
          pm_visits, df_labeled, visits_sorted, voyage_records,
          voyage_id_counter, ports, matched_df, calls, returned, raised>>

\* The input frames: pings sorted by (mmsi, timestamp), copies[s] reports
\* for the vessel and hour s.
Slots == Vessels \X Times

RECURSIVE Repeat(_, _)
Repeat(row, n) == IF n = 0 THEN <<>> ELSE <<row>> \o Repeat(row, n - 1)

Frame(S, kind, copies) ==
    LET o == StableOrder(S, [s \in S |-> s])
    IN  Concat([j \in 1 .. Len(o) |->
           Repeat([mmsi |-> o[j][1], base_date_time |-> o[j][2],
                   sog |-> kind[o[j]].sog, within |-> kind[o[j]].within],
                  copies[o[j]])])

RECURSIVE Sum(_, _)
Sum(f, S) == IF S = {} THEN 0
             ELSE LET x == CHOOSE y \in S : TRUE IN f[x] + Sum(f, S \ {x})

\* PortMatcher.__init__: self.ports = ports_gdf (the geometry column is
\* represented by `within` on the pings)
ports_gdf ==
    [columns |-> <<"portName">>,
     data |-> [j \in DOMAIN PortNames |-> <<PortNames[j]>>]]

\* nothing computed yet
InitState ==
    /\ pc = "start"
    /\ near_port = <<>>
    /\ port_visits = <<>>
    /\ pm_visits = <<>>
    /\ df_labeled = <<>>
    /\ visits_sorted = <<>>
    /\ voyage_records = <<>>
    /\ voyage_id_counter = 0
    /\ ports = ports_gdf
    /\ matched_df = <<>>
    /\ calls = 0
    /\ returned = <<>>
    /\ raised = "none"

\* VoyageCreator(ports_gdf, gap_threshold_h = g): the matcher it builds has
\* the default min_time_in_port
InitRun ==
    /\ gap_threshold_h \in GapThresholds
    /\ min_time_in_port = 1
    /\ InitState

\* At most MaxPings pings, at most one per vessel and hour; hour 0 is the
\* hour of the first report.
Init ==
    /\ \E S \in SUBSET Slots :
          /\ Cardinality(S) <= MaxPings
          /\ S = {} \/ \E s \in S : s[2] = 0
          /\ \E kind \in [S -> PingKinds] :
                ais_df = Frame(S, kind, [s \in S |-> 1])
    /\ InitRun

\* At most MaxPings pings, a report possibly received twice.
InitSeg ==
    /\ \E S \in SUBSET Slots :
          /\ Cardinality(S) <= MaxPings
          /\ \E kind \in [S -> PingKinds], copies \in [S -> {1, 2}] :
                /\ Sum(copies, S) <= MaxPings
                /\ ais_df = Frame(S, kind, copies)
    /\ InitRun

\* At most MaxPings pings, a report possibly received twice, handed in
\* newest first.
InitLabel ==
    /\ \E S \in SUBSET Slots :
          /\ Cardinality(S) <= MaxPings
          /\ \E kind \in [S -> PingKinds], copies \in [S -> {1, 2}] :
                /\ Sum(copies, S) <= MaxPings
                /\ ais_df = Reverse(Frame(S, kind, copies))
    /\ InitRun

\* At most MaxPings - 1 pings of CandKinds, at most one per vessel and hour.
InitCand ==
    /\ \E S \in SUBSET Slots :
          /\ Cardinality(S) <= MaxPings - 1
          /\ \E kind \in [S -> CandKinds] :
                ais_df = Frame(S, kind, [s \in S |-> 1])
    /\ InitRun

\* PortMatcher(ports_gdf, min_time_in_port = h) with h of MinStays, and
\* at most MaxPings pings, at most one per vessel and hour.
InitMatch ==
    /\ \E S \in SUBSET Slots :
          /\ Cardinality(S) <= MaxPings
          /\ \E kind \in [S -> PingKinds] :
                ais_df = Frame(S, kind, [s \in S |-> 1])
    /\ gap_threshold_h \in GapThresholds
    /\ min_time_in_port \in MinStays
    /\ InitState

\* PortMatcher.match
Match ==
    /\ pc = "start"
    /\ near_port' = find_candidates(ais_df)
    /\ pm_visits' = pm_find_port_visits(ais_df, gap_threshold_h)
    /\ returned' = match(ais_df, gap_threshold_h, min_time_in_port)
    /\ pc' = "matched"
    /\ UNCHANGED <<ais_df, gap_threshold_h, min_time_in_port, port_visits,
                   df_labeled, visits_sorted, voyage_records,
                   voyage_id_counter, matcher_vars, raised>>

\* At most MaxPings - 1 pings, at most one per vessel and hour.
InitOrder ==
    /\ \E S \in SUBSET Slots :
          /\ Cardinality(S) <= MaxPings - 1
          /\ \E kind \in [S -> PingKinds] :
                ais_df = Frame(S, kind, [s \in S |-> 1])
    /\ InitRun

\* VoyageCreator._split_visits once more, the candidate rows reordered
SplitVisitsAgain ==
    /\ pc = "visits"
    /\ near_port' \in Reordered(near_port)
    /\ returned' = _split_visits(near_port', gap_threshold_h)
    /\ pc' = "visits_again"
    /\ UNCHANGED <<ais_df, gap_threshold_h, min_time_in_port, port_visits,
                   pm_visits, df_labeled, visits_sorted, voyage_records,
                   voyage_id_counter, matcher_vars, raised>>

\* PortMatcher.find_port_visits once more, the pings reordered
PortMatcherFindPortVisitsAgain ==
    /\ pc = "pm_visits"
    /\ ais_df' \in Reordered(ais_df)
    /\ near_port' = find_candidates(ais_df')
    /\ returned' = pm_find_port_visits(ais_df', gap_threshold_h)
    /\ pc' = "pm_visits_again"
    /\ UNCHANGED <<gap_threshold_h, min_time_in_port, port_visits,
                   pm_visits, df_labeled, visits_sorted, voyage_records,
                   voyage_id_counter, matcher_vars, raised>>

\* VoyageCreator / PortMatcher built with thresholds below zero; at most
\* MaxPings - 2 reports, one possibly received twice, MaxPings - 1 pings
\* at most.
InitConfig ==
    /\ \E S \in SUBSET Slots :
          /\ Cardinality(S) <= MaxPings - 2
          /\ \E kind \in [S -> PingKinds], copies \in [S -> {1, 2}] :
                /\ Sum(copies, S) <= MaxPings - 1
                /\ ais_df = Frame(S, kind, copies)
    /\ gap_threshold_h \in NegativeThresholds
    /\ min_time_in_port = -1
    /\ InitState

\* One vessel followed an hour longer, so that an at-sea ping can lie
\* after a visit nested in another and before the next visit; the other
\* vessel reports at most once.  At most MaxPings pings, one per vessel and
\* hour.
VoyageTimes == 0 .. MaxTime + 1

InitVoyage ==
    /\ \E S \in SUBSET (Vessels \X VoyageTimes) :
          /\ Cardinality(S) <= MaxPings
          /\ Cardinality({s \in S : s[1] # Min(Vessels)}) <= 1
          /\ \E kind \in [S -> PingKinds] :
                ais_df = Frame(S, kind, [s \in S |-> 1])
    /\ InitRun

\* the frames handed to add_port_call_counts: at most MaxPings - 2 rows
\* (mmsi, portName), in any order, rows possibly repeated
MatchedFrames ==
    UNION {[1 .. n -> [mmsi : Vessels, portName : {PortNames[k] : k \in DOMAIN PortNames}]] :
              n \in 0 .. MaxPings - 2}

\* A matcher, no call made yet
InitCounts ==
    /\ ais_df = <<>>
    /\ gap_threshold_h = 0
    /\ min_time_in_port = 1
    /\ InitState

\* PortMatcher.add_port_call_counts
AddPortCallCounts ==
    /\ pc \in {"start", "counted"}
    /\ calls < MaxCalls
    /\ \E md \in MatchedFrames,
          clash_raises \in IF SuffixClash(ports.columns) THEN BOOLEAN ELSE {FALSE} :
          LET r == add_port_call_counts(ports, md, clash_raises)
          IN  /\ ports' = r.ports
              /\ returned' = r.returned
              /\ raised' = r.raised
              /\ matched_df' = md
    /\ calls' = calls + 1
    /\ pc' = "counted"
    /\ UNCHANGED <<ais_df, gap_threshold_h, min_time_in_port, near_port,
                   port_visits, pm_visits, df_labeled, visits_sorted,
                   voyage_records, voyage_id_counter>>

\* PortMatcher.find_candidates
FindCandidates ==
    /\ pc = "start"
    /\ near_port' = find_candidates(ais_df)
    /\ pc' = "candidates"
    /\ UNCHANGED <<ais_df, gap_threshold_h, min_time_in_port, port_visits,
                   pm_visits, df_labeled, visits_sorted, voyage_records,
                   voyage_id_counter, matcher_vars, returned, raised>>

\* VoyageCreator.find_port_visits
FindPortVisits ==
    /\ pc = "start"
    /\ near_port' = find_candidates(ais_df)
    /\ port_visits' = _split_visits(near_port', gap_threshold_h)
    /\ pc' = "visits"
    /\ UNCHANGED <<ais_df, gap_threshold_h, min_time_in_port, pm_visits,
                   df_labeled, visits_sorted, voyage_records,
                   voyage_id_counter, matcher_vars, returned, raised>>

\* PortMatcher.find_port_visits
PortMatcherFindPortVisits ==
    /\ pc = "start"
    /\ near_port' = find_candidates(ais_df)
    /\ pm_visits' = pm_find_port_visits(ais_df, gap_threshold_h)
    /\ pc' = "pm_visits"
    /\ UNCHANGED <<ais_df, gap_threshold_h, min_time_in_port, port_visits,
                   df_labeled, visits_sorted, voyage_records,
                   voyage_id_counter, matcher_vars, returned, raised>>

\* VoyageCreator.label_pings
LabelPings ==
    /\ pc = "visits"
    /\ df_labeled' \in label_pings(ais_df, port_visits)
    /\ pc' = "labeled"
    /\ UNCHANGED <<ais_df, gap_threshold_h, min_time_in_port, near_port,
                   port_visits, pm_visits, visits_sorted, voyage_records,
                   voyage_id_counter, matcher_vars, returned, raised>>

\* caller_frame when build_voyages works on df_labeled.copy()
caller_frame_copy(passed, stamped) == passed

\* The frame the caller passed as df_labeled, after the call:
\* df_labeled.loc[sea_mask, 'voyage_id'] = ... writes into that frame, no
\* copy is made.
caller_frame(passed, stamped) == stamped

\* VoyageCreator.build_voyages; it returns (df_labeled, df_voyages)
BuildVoyages ==
    /\ pc = "labeled"
    /\ \E r \in build_voyages(df_labeled, port_visits) :
          /\ df_labeled' = caller_frame(df_labeled, r.out.df_labeled)
          /\ voyage_records' = r.out.voyage_records
          /\ voyage_id_counter' = r.out.voyage_id_counter
          /\ visits_sorted' = r.visits_sorted
          /\ returned' = [df_labeled |-> r.out.df_labeled,
                          df_voyages |-> r.out.voyage_records]
    /\ pc' = "done"
    /\ UNCHANGED <<ais_df, gap_threshold_h, min_time_in_port, near_port,
                   port_visits, pm_visits, matcher_vars, raised>>

\* The pipeline: find_port_visits, label_pings, build_voyages
Next ==
    \/ FindPortVisits
    \/ LabelPings
    \/ BuildVoyages

Spec == Init /\ [][Next]_vars

\* Visit segmentation alone, by either class
NextSeg ==
    \/ FindPortVisits
    \/ PortMatcherFindPortVisits

SpecSeg == InitSeg /\ [][NextSeg]_vars

\* find_port_visits then label_pings, on pings in any order with repeats
NextLabel ==
    \/ FindPortVisits
    \/ LabelPings

SpecLabel == InitLabel /\ [][NextLabel]_vars

\* find_candidates alone, and within find_port_visits
NextCand ==
    \/ FindCandidates
    \/ FindPortVisits

SpecCand == InitCand /\ [][NextCand]_vars

\* match, and the visits it filters
NextMatch ==
    \/ Match
    \/ PortMatcherFindPortVisits

SpecMatch == InitMatch /\ [][NextMatch]_vars

\* segmentation, then segmentation of the same rows in another order
NextOrder ==
    \/ FindPortVisits
    \/ SplitVisitsAgain
    \/ PortMatcherFindPortVisits
    \/ PortMatcherFindPortVisitsAgain

SpecOrder == InitOrder /\ [][NextOrder]_vars

\* the pipeline and match, run with thresholds below zero
NextConfig ==
    \/ FindPortVisits
    \/ LabelPings
    \/ BuildVoyages
    \/ Match

SpecConfig == InitConfig /\ [][NextConfig]_vars

\* add_port_call_counts, called again and again on one matcher
NextCounts == AddPortCallCounts

SpecCounts == InitCounts /\ [][NextCounts]_vars

\* the pipeline on the longer track
NextVoyage ==
    \/ FindPortVisits
    \/ LabelPings
    \/ BuildVoyages

SpecVoyage == InitVoyage /\ [][NextVoyage]_vars

\* =============================================================== claims
Rows(df) == {df[j] : j \in DOMAIN df}

\* the visits of a frame that belong to one vessel
VisitsOf(visits, m) == {v \in Rows(visits) : v.mmsi = m}

\* the voyage rows of one vessel, in emission order
VoyagesOf(m) == SelectSeq(voyage_records, LAMBDA r : r.mmsi = m)

\* the visit order build_voyages walked for vessel m
Walked(m) == IF m \in DOMAIN visits_sorted THEN visits_sorted[m] ELSE <<>>

\* the consecutive pairs of vs that do not overlap, by position of the
\* departure visit, ascending
ValidPairs(vs) ==
    SelectSeq([j \in 1 .. Len(vs) - 1 |-> j],
              LAMBDA j : vs[j + 1].entry_time > vs[j].exit_time)

\* rows a and b of near_port are neighbours in their (vessel, port) group:
\* no row of the group lies strictly between them in time
Neighbours(a, b) ==
    /\ a # b
    /\ near_port[a].mmsi = near_port[b].mmsi
    /\ near_port[a].portName = near_port[b].portName
    /\ near_port[a].base_date_time <= near_port[b].base_date_time
    /\ ~\E c \in DOMAIN near_port :
          /\ near_port[c].mmsi = near_port[a].mmsi
          /\ near_port[c].portName = near_port[a].portName
          /\ near_port[a].base_date_time < near_port[c].base_date_time
          /\ near_port[c].base_date_time < near_port[b].base_date_time

GapOf(a, b) == near_port[b].base_date_time - near_port[a].base_date_time

\* the visits of `visits` that hold candidate row a
Holding(visits, a) ==
    {v \in Rows(visits) :
        /\ v.mmsi = near_port[a].mmsi
        /\ v.portName = near_port[a].portName
        /\ v.entry_time <= near_port[a].base_date_time
        /\ near_port[a].base_date_time <= v.exit_time}

Segmented(visits) ==
    \A a, b \in DOMAIN near_port :
        Neighbours(a, b) =>
            /\ Cardinality(Holding(visits, a)) = 1
            /\ Cardinality(Holding(visits, b)) = 1
            /\ (Holding(visits, a) # Holding(visits, b))
                  <=> (GapOf(a, b) > gap_threshold_h)
            /\ GapOf(a, b) = gap_threshold_h
                  => Holding(visits, a) = Holding(visits, b)
            /\ GapOf(a, b) = 0 => Holding(visits, a) = Holding(visits, b)

\* C1: in one (vessel, port) group two neighbouring candidate pings lie in
\* different visits exactly when their gap is strictly greater than the gap
\* threshold; a gap equal to the threshold and a zero gap never split.  Holds
\* of VoyageCreator._split_visits and of PortMatcher.find_port_visits.
C1_GapSplitsIffGreater ==
    /\ pc = "visits" => Segmented(port_visits)
    /\ pc = "pm_visits" => Segmented(pm_visits)

C1_Witness ==
    /\ pc = "visits"
    /\ gap_threshold_h = 1
    /\ \E a, b \in DOMAIN near_port : Neighbours(a, b) /\ GapOf(a, b) = 0
    /\ \E a, b \in DOMAIN near_port : Neighbours(a, b) /\ GapOf(a, b) = 1
    /\ \E a, b \in DOMAIN near_port :
          /\ Neighbours(a, b)
          /\ GapOf(a, b) = 2
          /\ Holding(port_visits, a) # Holding(port_visits, b)

\* C2: for each vessel, visits sorted by entry_time, build_voyages emits one
\* voyage for every consecutive pair whose arrival entry_time is after the
\* departure exit_time and none for the other pairs; a skipped pair does not
\* end the walk; a vessel with fewer than two visits has no voyage.
C2_OneVoyagePerValidPair ==
    pc = "done" =>
        \A m \in Vessels :
            LET vs == Walked(m)
                vp == ValidPairs(vs)
                vy == VoyagesOf(m)
            IN  /\ Rows(vs) = VisitsOf(port_visits, m)
                /\ Len(vs) = Cardinality(VisitsOf(port_visits, m))
                /\ \A j \in 1 .. Len(vs) - 1 :
                      vs[j].entry_time <= vs[j + 1].entry_time
                /\ Len(vy) = Len(vp)
                /\ \A k \in DOMAIN vy :
                      /\ vy[k].departure_time = vs[vp[k]].exit_time
                      /\ vy[k].departure_port = vs[vp[k]].portName
                      /\ vy[k].arrival_time = vs[vp[k] + 1].entry_time
                      /\ vy[k].arrival_port = vs[vp[k] + 1].portName
                /\ Len(vs) < 2 => vy = <<>>

C2_Witness ==
    /\ pc = "done"
    /\ \E m \in Vessels :
          /\ Len(Walked(m)) >= 3
          /\ Walked(m)[2].entry_time <= Walked(m)[1].exit_time
          /\ Walked(m)[3].entry_time > Walked(m)[2].exit_time
          /\ Len(VoyagesOf(m)) = 1
    /\ \E m \in Vessels : Len(Walked(m)) = 1 /\ VoyagesOf(m) = <<>>

\* C3: every voyage departs from visit[i] (its port and exit_time) and
\* arrives at visit[i+1] (its port and entry_time) of the same vessel,
\* arrives strictly after it departs, and lasts arrival_time -
\* departure_time hours, which is positive.
C3_VoyageFromConsecutiveVisits ==
    \A k \in DOMAIN voyage_records :
        LET r  == voyage_records[k]
            vs == Walked(r.mmsi)
        IN  /\ \E j \in 1 .. Len(vs) - 1 :
                  /\ vs[j].mmsi = r.mmsi
                  /\ vs[j + 1].mmsi = r.mmsi
                  /\ r.departure_port = vs[j].portName
                  /\ r.departure_time = vs[j].exit_time
                  /\ r.arrival_port = vs[j + 1].portName
                  /\ r.arrival_time = vs[j + 1].entry_time
            /\ r.arrival_time > r.departure_time
            /\ r.duration_hours = r.arrival_time - r.departure_time
            /\ r.duration_hours > 0

C3_Witness ==
    /\ pc = "done"
    /\ \E k \in DOMAIN voyage_records :
          /\ voyage_records[k].departure_port # voyage_records[k].arrival_port
          /\ voyage_records[k].duration_hours = 2

\* C4: the k-th voyage emitted has id k, counting from 0 and across all
\* vessels; ids are pairwise distinct; a skipped pair uses up no id (the
\* counter ends at the number of voyages); one vessel's ids grow in the
\* order of its departure visits.
C4_IdsCountEmittedVoyages ==
    pc = "done" =>
        /\ \A k \in DOMAIN voyage_records : voyage_records[k].voyage_id = k - 1
        /\ \A k, l \in DOMAIN voyage_records :
              k # l => voyage_records[k].voyage_id # voyage_records[l].voyage_id
        /\ voyage_id_counter = Len(voyage_records)
        /\ \A m \in Vessels :
              LET vs == Walked(m)
                  vp == ValidPairs(vs)
                  vy == VoyagesOf(m)
              IN  \A k, l \in DOMAIN vy :
                      vy[k].voyage_id < vy[l].voyage_id =>
                          /\ k < l
                          /\ k \in DOMAIN vp /\ l \in DOMAIN vp
                          /\ vp[k] < vp[l]
                          /\ vy[k].departure_time = vs[vp[k]].exit_time
                          /\ vy[l].departure_time = vs[vp[l]].exit_time

C4_Witness ==
    /\ pc = "done"
    /\ \E k \in DOMAIN voyage_records :
          voyage_records[k].mmsi = 222 /\ voyage_records[k].voyage_id = 1
    /\ \E k \in DOMAIN voyage_records : voyage_records[k].mmsi = 111
    /\ Len(Walked(111)) >= 3
    /\ Walked(111)[2].entry_time <= Walked(111)[1].exit_time

\* the rows of df_labeled of voyage r's vessel strictly inside the voyage
InVoyage(r) ==
    {j \in DOMAIN df_labeled :
        /\ df_labeled[j].mmsi = r.mmsi
        /\ r.departure_time < df_labeled[j].base_date_time
        /\ df_labeled[j].base_date_time < r.arrival_time}

C6_AtPortPingsHaveNoVoyageId ==
    \A j \in DOMAIN df_labeled :
        df_labeled[j].current_port # NA => df_labeled[j].voyage_id = NA_ID

\* the visits of ping row j's vessel whose window holds the ping
Windows(j) ==
    {v \in VisitsOf(port_visits, df_labeled[j].mmsi) :
        /\ v.entry_time <= df_labeled[j].base_date_time
        /\ df_labeled[j].base_date_time <= v.exit_time}

\* C7: label_pings sets current_port exactly on the pings that lie in
\* [entry_time, exit_time] of some visit of their own vessel, and sets it to
\* the port of such a visit.
C7_CurrentPortIffInWindow ==
    \A j \in DOMAIN df_labeled :
        /\ df_labeled[j].current_port # NA <=> Windows(j) # {}
        /\ df_labeled[j].current_port # NA =>
              \E v \in Windows(j) : v.portName = df_labeled[j].current_port

C7_Witness ==
    /\ pc = "labeled"
    /\ \E j \in DOMAIN df_labeled :
          /\ df_labeled[j].current_port = NA
          /\ \E v \in Rows(port_visits) :
                /\ v.mmsi # df_labeled[j].mmsi
                /\ v.entry_time <= df_labeled[j].base_date_time
                /\ df_labeled[j].base_date_time <= v.exit_time
    /\ \E j \in DOMAIN df_labeled :
          /\ df_labeled[j].current_port # NA
          /\ df_labeled[j].within = {}
    /\ \E j \in DOMAIN df_labeled :
          /\ df_labeled[j].current_port # NA
          /\ \E v \in Windows(j) :
                v.entry_time < v.exit_time
                /\ v.exit_time = df_labeled[j].base_date_time

\* the visits of ping row j's vessel that ended by the ping
Departed(j) ==
    {v \in VisitsOf(port_visits, df_labeled[j].mmsi) :
        v.exit_time <= df_labeled[j].base_date_time}

\* the visits of ping row j's vessel that begin at or after the ping
Ahead(j) ==
    {v \in VisitsOf(port_visits, df_labeled[j].mmsi) :
        v.entry_time >= df_labeled[j].base_date_time}

\* C8: a ping without current_port has as origin_port the port of the visit
\* of its own vessel with the greatest exit_time <= its timestamp, and no
\* origin_port when its vessel has no such visit.
C8_OriginIsLastDeparture ==
    pc = "labeled" =>
        \A j \in DOMAIN df_labeled :
            df_labeled[j].current_port = NA =>
                IF Departed(j) = {} THEN df_labeled[j].origin_port = NA
                ELSE \E v \in Departed(j) :
                        /\ \A w \in Departed(j) : w.exit_time <= v.exit_time
                        /\ df_labeled[j].origin_port = v.portName

C8_Witness ==
    /\ pc = "labeled"
    /\ \E j \in DOMAIN df_labeled :
          /\ df_labeled[j].current_port = NA
          /\ df_labeled[j].origin_port = NA
          /\ \E v \in Rows(port_visits) :
                v.mmsi # df_labeled[j].mmsi
                /\ v.exit_time <= df_labeled[j].base_date_time
    /\ \E j \in DOMAIN df_labeled :
          /\ df_labeled[j].current_port = NA
          /\ df_labeled[j].origin_port # NA
          /\ \E v, w \in Departed(j) : v.exit_time < w.exit_time

\* C9: a ping without current_port has as destination_port the port of the
\* visit of its own vessel with the smallest entry_time >= its timestamp,
\* and no destination_port when its vessel has no such visit.
C9_DestinationIsNextArrival ==
    pc = "labeled" =>
        \A j \in DOMAIN df_labeled :
            df_labeled[j].current_port = NA =>
                IF Ahead(j) = {} THEN df_labeled[j].destination_port = NA
                ELSE \E v \in Ahead(j) :
                        /\ \A w \in Ahead(j) : v.entry_time <= w.entry_time
                        /\ df_labeled[j].destination_port = v.portName

C9_Witness ==
    /\ pc = "labeled"
    /\ \E j \in DOMAIN df_labeled :
          /\ df_labeled[j].current_port = NA
          /\ df_labeled[j].destination_port = NA
          /\ \E v \in Rows(port_visits) :
                v.mmsi # df_labeled[j].mmsi
                /\ v.entry_time >= df_labeled[j].base_date_time
    /\ \E j \in DOMAIN df_labeled :
          /\ df_labeled[j].current_port = NA
          /\ df_labeled[j].destination_port # NA
          /\ \E v, w \in Ahead(j) : v.entry_time < w.entry_time

\* C10: in the output of label_pings a ping with current_port has neither
\* origin_port nor destination_port, and no ping has a voyage_id.
C10_AtPortNotEnRoute ==
    pc = "labeled" =>
        \A j \in DOMAIN df_labeled :
            /\ df_labeled[j].current_port # NA =>
                  /\ df_labeled[j].origin_port = NA
                  /\ df_labeled[j].destination_port = NA
            /\ df_labeled[j].voyage_id = NA_ID

C10_Witness ==
    /\ pc = "labeled"
    /\ \E j \in DOMAIN df_labeled :
          /\ df_labeled[j].current_port # NA
          /\ \E v \in Departed(j) : v \notin Windows(j)
          /\ \E v \in Ahead(j) : v \notin Windows(j)
    /\ \E j \in DOMAIN df_labeled : df_labeled[j].current_port = NA

\* the input columns of a labelled row
PingOf(r) ==
    [mmsi |-> r.mmsi, base_date_time |-> r.base_date_time,
     sog |-> r.sog, within |-> r.within]

\* C11: label_pings returns every input ping exactly once (as many labelled
\* rows carry a ping's columns as input rows do, and no others), also for
\* pings inside several visits and pings sharing (vessel, timestamp); the
\* output is ordered by (vessel, timestamp) ascending.
C11_OneLabelledRowPerPing ==
    pc = "labeled" =>
        /\ Len(df_labeled) = Len(ais_df)
        /\ \A j \in DOMAIN df_labeled : PingOf(df_labeled[j]) \in Rows(ais_df)
        /\ \A r \in Rows(ais_df) :
              Cardinality({j \in DOMAIN df_labeled : PingOf(df_labeled[j]) = r})
                 = Cardinality({j \in DOMAIN ais_df : ais_df[j] = r})
        /\ \A j \in 1 .. Len(df_labeled) - 1 :
              ~LexLess(<<df_labeled[j + 1].mmsi, df_labeled[j + 1].base_date_time>>,
                       <<df_labeled[j].mmsi, df_labeled[j].base_date_time>>)

C11_Witness ==
    /\ pc = "labeled"
    /\ \E j \in DOMAIN df_labeled : Cardinality(Windows(j)) >= 2
    /\ \E j, k \in DOMAIN df_labeled :
          /\ j # k
          /\ df_labeled[j].mmsi = df_labeled[k].mmsi
          /\ df_labeled[j].base_date_time = df_labeled[k].base_date_time
          /\ df_labeled[j].current_port # NA
    /\ \E j \in DOMAIN ais_df : ais_df[j].mmsi # ais_df[1].mmsi
    /\ ais_df # df_labeled
    /\ \E j \in 1 .. Len(ais_df) - 1 :
          ais_df[j + 1].base_date_time < ais_df[j].base_date_time

\* the timestamps of the candidate rows of row a's (vessel, port) group
GroupTimesOf(a) ==
    {near_port[b].base_date_time : b \in
        {c \in DOMAIN near_port :
            /\ near_port[c].mmsi = near_port[a].mmsi
            /\ near_port[c].portName = near_port[a].portName}}

\* the cluster of candidate row a: the timestamps of its group reached from
\* a's timestamp through successive timestamps no more than the gap
\* threshold apart
ClusterTimes(a) ==
    LET T  == GroupTimesOf(a)
        ta == near_port[a].base_date_time
        Linked(lo, hi) ==
            \A t1, t2 \in T :
                (/\ lo <= t1 /\ t1 < t2 /\ t2 <= hi
                 /\ ~\E t \in T : t1 < t /\ t < t2)
                    => t2 - t1 <= gap_threshold_h
    IN  {t \in T : IF t <= ta THEN Linked(t, ta) ELSE Linked(ta, t)}

\* the candidate rows in the cluster of candidate row a
ClusterRows(a) ==
    {b \in DOMAIN near_port :
        /\ near_port[b].mmsi = near_port[a].mmsi
        /\ near_port[b].portName = near_port[a].portName
        /\ near_port[b].base_date_time \in ClusterTimes(a)}

VisitOfCluster(a) ==
    [mmsi |-> near_port[a].mmsi, portName |-> near_port[a].portName,
     entry_time |-> Min(ClusterTimes(a)), exit_time |-> Max(ClusterTimes(a)),
     duration_hours |-> Max(ClusterTimes(a)) - Min(ClusterTimes(a))]

ClusterVisits(visits) ==
    /\ Rows(visits) = {VisitOfCluster(a) : a \in DOMAIN near_port}
    /\ Len(visits) = Cardinality(Rows(visits))
    /\ \A v \in Rows(visits) :
          /\ v.entry_time <= v.exit_time
          /\ v.duration_hours = v.exit_time - v.entry_time
          /\ v.duration_hours >= 0
    /\ \A a \in DOMAIN near_port :
          Cardinality(ClusterRows(a)) = 1 =>
              \A v \in Holding(visits, a) : v.duration_hours = 0

\* C12: the visits are exactly the clusters of candidate pings, one visit
\* per cluster, with entry_time the earliest and exit_time the latest
\* timestamp of the cluster and duration_hours their difference in hours;
\* so entry_time <= exit_time, duration_hours >= 0, and a visit built from
\* a single ping lasts 0 hours.  Holds of VoyageCreator._split_visits and of
\* PortMatcher.find_port_visits.
C12_VisitSpansItsCluster ==
    /\ pc = "visits" => ClusterVisits(port_visits)
    /\ pc = "pm_visits" => ClusterVisits(pm_visits)

C12_Witness ==
    /\ pc = "pm_visits"
    /\ \E a \in DOMAIN near_port :
          /\ Cardinality(ClusterRows(a)) = 1
          /\ \E v \in Holding(pm_visits, a) : v.duration_hours = 0
    /\ \E a \in DOMAIN near_port :
          /\ Cardinality(ClusterRows(a)) >= 3
          /\ \E v \in Holding(pm_visits, a) : v.duration_hours = 2
    /\ \E v, w \in Rows(pm_visits) :
          v.mmsi = w.mmsi /\ v.portName = w.portName /\ v # w

\* the candidate rows of near_port for ping row j of ais_df and port n
CandidatesOf(j, n) ==
    {i \in DOMAIN near_port :
        /\ near_port[i].mmsi = ais_df[j].mmsi
        /\ near_port[i].base_date_time = ais_df[j].base_date_time
        /\ near_port[i].portName = n}

\* ping row j of ais_df has a speed over ground, at most the threshold
Slow(j) == ais_df[j].sog # NaN /\ ais_df[j].sog <= max_speed

PortSet == {PortNames[k] : k \in DOMAIN PortNames}

\* C13: find_candidates returns one candidate for (ping, port) when the
\* ping's sog is <= max_speed and the ping is inside the port's buffer, none
\* otherwise, and no candidate that is not of such a ping; every visit
\* begins and ends at the timestamp of such a ping, so a ping above the
\* threshold produces no visit wherever it is.
C13_CandidateIffSlowAndWithin ==
    pc # "start" =>
        /\ \A j \in DOMAIN ais_df : \A n \in PortSet :
              Cardinality(CandidatesOf(j, n)) =
                 IF Slow(j) /\ n \in ais_df[j].within THEN 1 ELSE 0
        /\ \A i \in DOMAIN near_port :
              \E j \in DOMAIN ais_df : i \in CandidatesOf(j, near_port[i].portName)
        /\ \A v \in Rows(port_visits) : \A t \in {v.entry_time, v.exit_time} :
              \E j \in DOMAIN ais_df :
                  /\ Slow(j)
                  /\ ais_df[j].mmsi = v.mmsi
                  /\ ais_df[j].base_date_time = t
                  /\ v.portName \in ais_df[j].within

C13_Witness ==
    /\ pc = "visits"
    /\ \E j \in DOMAIN ais_df :
          /\ ais_df[j].sog = max_speed
          /\ Cardinality(ais_df[j].within) = 2
          /\ \A n \in ais_df[j].within : CandidatesOf(j, n) # {}
    /\ \E j \in DOMAIN ais_df :
          /\ ais_df[j].sog = max_speed + 1
          /\ ais_df[j].within # {}
          /\ \A v \in Rows(port_visits) : v.mmsi # ais_df[j].mmsi
    /\ \E j \in DOMAIN ais_df :
          /\ ais_df[j].sog < max_speed
          /\ Slow(j)
          /\ CandidatesOf(j, "PortA") # {}
          /\ CandidatesOf(j, "PortB") = {}

\* the visits of vessel m at port n that last at least the minimum stay
LongStays(m, n) ==
    {v \in Rows(pm_visits) :
        /\ v.mmsi = m
        /\ v.portName = n
        /\ v.duration_hours >= min_time_in_port}

\* C14: match returns the pair (vessel, port) once when some visit of the
\* vessel at the port lasts at least min_time_in_port hours, and not at all
\* otherwise, however many such visits there are.
C14_MatchedIffLongStay ==
    pc = "matched" =>
        /\ \A m \in Vessels : \A n \in PortSet :
              Cardinality({j \in DOMAIN returned :
                              returned[j] = [mmsi |-> m, portName |-> n]})
                 = IF LongStays(m, n) # {} THEN 1 ELSE 0
        /\ Len(returned) =
              Cardinality({mn \in Vessels \X PortSet :
                              LongStays(mn[1], mn[2]) # {}})

C14_Witness ==
    /\ pc = "matched"
    /\ min_time_in_port = 1
    /\ \E j \in DOMAIN returned :
          /\ LongStays(returned[j].mmsi, returned[j].portName) # {}
          /\ \E n \in PortSet :
                /\ Cardinality({v \in Rows(pm_visits) :
                      v.mmsi = returned[j].mmsi /\ v.portName = n}) = 2
                /\ LongStays(returned[j].mmsi, n) = {}

\* C14: with no minimum stay a pair with two visits is returned once.
C14_WitnessTwoStays ==
    /\ pc = "matched"
    /\ \E j \in DOMAIN returned :
          Cardinality(LongStays(returned[j].mmsi, returned[j].portName)) = 2

\* C15: segmenting the same candidate rows again with the same threshold,
\* the rows in another order, gives the same visits (as a set, and as many
\* rows).  Holds of VoyageCreator._split_visits and of
\* PortMatcher.find_port_visits.
C15_VisitsIndependentOfRowOrder ==
    /\ pc = "visits_again" =>
          Rows(returned) = Rows(port_visits) /\ Len(returned) = Len(port_visits)
    /\ pc = "pm_visits_again" =>
          Rows(returned) = Rows(pm_visits) /\ Len(returned) = Len(pm_visits)

C15_Witness ==
    /\ pc = "visits_again"
    /\ \E a, b \in DOMAIN near_port :
          /\ a < b
          /\ near_port[a].mmsi = near_port[b].mmsi
          /\ near_port[a].portName = near_port[b].portName
          /\ near_port[a].base_date_time > near_port[b].base_date_time
          /\ Holding(returned, a) = Holding(returned, b)
    /\ \E v, w \in Rows(returned) :
          v.mmsi = w.mmsi /\ v.portName = w.portName /\ v # w

\* C16 as claimed: after build_voyages the frame the caller passed as
\* df_labeled still has no voyage_id on any ping.
C16_CallerFrameUntouched ==
    pc = "done" =>
        \A j \in DOMAIN df_labeled : df_labeled[j].voyage_id = NA_ID

\* C16, amended: label_pings leaves the pings and the visits it is given
\* unchanged and build_voyages leaves the visits unchanged; build_voyages
\* fills voyage_id in the frame the caller passed, which is the frame it
\* returns: every ping strictly inside a voyage of its vessel has a
\* voyage_id there.
C16_LabelledFrameFilledInPlace ==
    [][ /\ pc = "visits" => (ais_df' = ais_df /\ port_visits' = port_visits)
        /\ pc = "labeled" =>
              /\ ais_df' = ais_df
              /\ port_visits' = port_visits
              /\ df_labeled' = returned'.df_labeled
              /\ \A k \in DOMAIN voyage_records' :
                    \A j \in DOMAIN df_labeled' :
                        (/\ df_labeled'[j].mmsi = voyage_records'[k].mmsi
                         /\ voyage_records'[k].departure_time
                               < df_labeled'[j].base_date_time
                         /\ df_labeled'[j].base_date_time
                               < voyage_records'[k].arrival_time)
                            => df_labeled'[j].voyage_id # NA_ID ]_vars

C16_Witness ==
    /\ pc = "done"
    /\ \E j \in DOMAIN df_labeled : df_labeled[j].voyage_id # NA_ID
    /\ \E j \in DOMAIN df_labeled : df_labeled[j].voyage_id = NA_ID
    /\ returned.df_labeled = df_labeled

\* the consecutive pairs of vessel m's walked visits that overlap
SkippedPairs(m) ==
    {j \in 1 .. Len(Walked(m)) - 1 :
        Walked(m)[j + 1].entry_time <= Walked(m)[j].exit_time}

ConsecutivePairs(m) == 1 .. Len(Walked(m)) - 1

\* C17 as claimed: when a pair was skipped, the result of build_voyages has,
\* beside the labelled pings and the voyage table, a component equal to the
\* number of skipped pairs.
C17_SkipsReported ==
    (pc = "done" /\ \E m \in Vessels : SkippedPairs(m) # {}) =>
        \E f \in DOMAIN returned \ {"df_labeled", "df_voyages"} :
            returned[f] = Sum([m \in Vessels |-> Cardinality(SkippedPairs(m))],
                              Vessels)

\* C17, amended: build_voyages returns the labelled pings and the voyage
\* table and nothing else; the skipped pairs are the consecutive pairs that
\* have no row in the voyage table, so rows plus skipped pairs make up the
\* consecutive pairs of every vessel.
C17_SkipsLeaveNoRow ==
    pc = "done" =>
        /\ DOMAIN returned = {"df_labeled", "df_voyages"}
        /\ returned.df_voyages = voyage_records
        /\ \A m \in Vessels :
              Len(VoyagesOf(m)) + Cardinality(SkippedPairs(m))
                 = Cardinality(ConsecutivePairs(m))

C17_Witness ==
    /\ pc = "done"
    /\ \E m \in Vessels :
          /\ SkippedPairs(m) # {}
          /\ Len(VoyagesOf(m)) = 1
          /\ Cardinality(ConsecutivePairs(m)) = 2
    /\ \E m \in Vessels : SkippedPairs(m) # {} /\ VoyagesOf(m) = <<>>

\* the ping rows of ais_df that have no speed over ground
NoSog == {j \in DOMAIN ais_df : ais_df[j].sog = NaN}

C19_NegativeThresholdRejected ==
    (pc # "start" /\ gap_threshold_h < 0 /\ min_time_in_port < 0) =>
        /\ raised # "none"
        /\ port_visits = <<>> /\ pm_visits = <<>>
        /\ df_labeled = <<>>
        /\ voyage_records = <<>>
        /\ returned = <<>>

\* every candidate row is a visit of its own
OneVisitPerCandidate(visits) ==
    /\ Len(visits) = Len(near_port)
    /\ \A v \in Rows(visits) : v.entry_time = v.exit_time /\ v.duration_hours = 0
    /\ \A a \in DOMAIN near_port :
          Cardinality({i \in DOMAIN visits :
                          /\ visits[i].mmsi = near_port[a].mmsi
                          /\ visits[i].portName = near_port[a].portName
                          /\ visits[i].entry_time = near_port[a].base_date_time})
             = Cardinality({b \in DOMAIN near_port : near_port[b] = near_port[a]})

\* C19, amended: thresholds below zero are accepted and nothing is raised.
\* With a gap threshold below zero every candidate ping, also a repeated
\* report, is a visit of its own of 0 hours; pings are labelled and voyages
\* built from those visits as usual; with a minimum stay below zero match
\* returns every (vessel, port) that has a visit.
C19_NegativeThresholdAccepted ==
    (gap_threshold_h < 0 /\ min_time_in_port < 0) =>
        /\ raised = "none"
        /\ pc \in {"visits", "labeled", "done"} => OneVisitPerCandidate(port_visits)
        /\ pc \in {"labeled", "done"} => Len(df_labeled) = Len(ais_df)
        /\ pc = "done" =>
              \A m \in Vessels : Len(VoyagesOf(m)) = Len(ValidPairs(Walked(m)))
        /\ pc = "matched" =>
              /\ OneVisitPerCandidate(pm_visits)
              /\ Rows(returned) =
                    {[mmsi |-> v.mmsi, portName |-> v.portName] :
                        v \in Rows(pm_visits)}

C19_Witness ==
    /\ pc = "done"
    /\ gap_threshold_h < 0
    /\ \E i, j \in DOMAIN port_visits :
          i # j /\ port_visits[i] = port_visits[j]
    /\ voyage_records # <<>>
    /\ raised = "none"

\* the number of distinct vessels matched_df pairs with port n
VesselsAt(n) ==
    Cardinality({matched_df[j].mmsi : j \in
        {i \in DOMAIN matched_df : matched_df[i].portName = n}})

\* C20: after every call of add_port_call_counts, the first or a later one,
\* nothing is raised, the table returned is the table stored, it has one row
\* per port and one port_call_count column, and that column holds the number
\* of distinct vessels matched_df pairs with the port, 0 when there is none.
C20_PortCallCountsAfterEveryCall ==
    calls >= 1 =>
        /\ raised = "none"
        /\ returned = ports
        /\ Len(ports.data) = Len(PortNames)
        /\ Cardinality({k \in DOMAIN ports.columns :
                           ports.columns[k] = "port_call_count"}) = 1
        /\ \A r \in DOMAIN ports.data : \A k \in DOMAIN ports.columns :
              /\ ports.data[r][1] = PortNames[r]
              /\ ports.columns[k] = "port_call_count" =>
                    ports.data[r][k] = VesselsAt(PortNames[r])

\* C20: what does hold, on the first call only.
C20_FirstCall ==
    calls = 1 =>
        /\ raised = "none"
        /\ returned = ports
        /\ ports.columns = <<"portName", "port_call_count">>
        /\ \A r \in DOMAIN ports.data :
              ports.data[r] = <<PortNames[r], VesselsAt(PortNames[r])>>

\* the voyage row with the id stamped on labelled row p
VoyageOf(p) == {v \in Rows(voyage_records) : v.voyage_id = p.voyage_id}

\* labelled rows with a voyage_id and no current_port
StampedAtSea ==
    {j \in DOMAIN df_labeled :
        /\ df_labeled[j].voyage_id # NA_ID
        /\ df_labeled[j].current_port = NA}

\* C21: after label_pings and build_voyages on the same visits, every ping
\* with a voyage_id and no current_port has the departure_port of its voyage
\* as origin_port and the arrival_port of its voyage as destination_port.
C21_LabelsAgreeWithVoyage ==
    pc = "done" =>
        \A j \in StampedAtSea : \A v \in VoyageOf(df_labeled[j]) :
            /\ df_labeled[j].origin_port = v.departure_port
            /\ df_labeled[j].destination_port = v.arrival_port

\* labelled rows with no current_port and both origin_port and
\* destination_port
EnRoute ==
    {j \in DOMAIN df_labeled :
        /\ df_labeled[j].current_port = NA
        /\ df_labeled[j].origin_port # NA
        /\ df_labeled[j].destination_port # NA}

\* C22: after label_pings and build_voyages on the same visits, every ping
\* with no current_port and both origin_port and destination_port carries
\* a voyage_id, the id of a voyage of its vessel, also where overlapping
\* pairs of visits were skipped.
C22_EnRoutePingHasVoyage ==
    pc = "done" =>
        \A j \in EnRoute :
            /\ df_labeled[j].voyage_id # NA_ID
            /\ \E v \in VoyageOf(df_labeled[j]) : v.mmsi = df_labeled[j].mmsi

\* an en-route ping of a vessel that had a pair of visits skipped before the
\* voyage of that ping, and another skipped after it
C22_Witness ==
    /\ pc = "done"
    /\ \E j \in EnRoute : \E a, b \in SkippedPairs(df_labeled[j].mmsi) :
          /\ Walked(df_labeled[j].mmsi)[a + 1].entry_time
                < df_labeled[j].base_date_time
          /\ Walked(df_labeled[j].mmsi)[b].entry_time
                > df_labeled[j].base_date_time
          /\ df_labeled[j].voyage_id # NA_ID

\* the labelled rows carrying voyage id v
Carrying(v) == {j \in DOMAIN df_labeled : df_labeled[j].voyage_id = v}

\* the open intervals (departure_time, arrival_time) of v and w share no
\* instant
DisjointVoyages(v, w) ==
    v.arrival_time <= w.departure_time \/ w.arrival_time <= v.departure_time

\* C23: the open intervals (departure_time, arrival_time) of the voyages of
\* one vessel are pairwise disjoint; every ping with voyage_id v is a ping
\* of voyage v's vessel with departure_time < timestamp < arrival_time; and
\* the pings carrying id v number voyage v's ping_count (no id written by
\* sea_mask is overwritten by a later voyage).
C23_VoyagesDisjointStampedOnce ==
    pc = "done" =>
        /\ \A i, k \in DOMAIN voyage_records :
              (i # k /\ voyage_records[i].mmsi = voyage_records[k].mmsi) =>
                  DisjointVoyages(voyage_records[i], voyage_records[k])
        /\ \A j \in DOMAIN df_labeled :
              df_labeled[j].voyage_id # NA_ID =>
                  \E v \in VoyageOf(df_labeled[j]) :
                      /\ v.mmsi = df_labeled[j].mmsi
                      /\ v.departure_time < df_labeled[j].base_date_time
                      /\ df_labeled[j].base_date_time < v.arrival_time
        /\ \A v \in Rows(voyage_records) :
              Cardinality(Carrying(v.voyage_id)) = v.ping_count

\* a vessel with two voyages after a visit nested in another, one of the
\* voyages with a ping stamped
C23_Witness ==
    /\ pc = "done"
    /\ \E m \in Vessels :
          /\ Len(VoyagesOf(m)) >= 2
          /\ \E k \in DOMAIN VoyagesOf(m) : VoyagesOf(m)[k].ping_count >= 1
          /\ SkippedPairs(m) # {}

\* a ping of another vessel reported during a voyage and left unstamped
C23_WitnessOtherVessel ==
    /\ pc = "done"
    /\ \E v \in Rows(voyage_records) : \E j \in DOMAIN df_labeled :
          /\ df_labeled[j].mmsi # v.mmsi
          /\ v.departure_time < df_labeled[j].base_date_time
          /\ df_labeled[j].base_date_time < v.arrival_time
          /\ df_labeled[j].voyage_id = NA_ID
          /\ v.ping_count >= 1

====
